---- MODULE Spec2Model ----
(***************************************************************************)
(* Model of the sentiment miner: the batch loop analyze_feedback_batch,    *)
(* the topic aggregation aggregate_topics, and the two command entry       *)
(* points (sentiment_miner/main.py main and cli.py main).                  *)
(*                                                                         *)
(* Strings whose characters matter (topics, error messages) are sequences  *)
(* of one-character strings; opaque strings (feedback texts, sentiment     *)
(* labels) are TLA+ strings.                                               *)
(***************************************************************************)
EXTENDS Integers, Sequences, FiniteSets, TLC

VARIABLES
    entry,          \* which operation runs: "miner", "cli", "batch", "aggregate"
    pc,             \* position in the running operation
    command,        \* cli.py: args.command
    limit,          \* args.limit: NoLimit (None) or Limit(n)
    debug,          \* args.debug / the debug parameter
    show_progress,  \* the show_progress parameter
    no_save,        \* args.no_save
    configOk,       \* whether get_lm() finds a usable backend configuration
    csvState,       \* "missing", "nocolumn" or "ok": what read_csv_column finds
    column,         \* the texts of the CSV column
    texts,          \* the sequence handed to analyze_feedback_batch
    idx,            \* number of rows the loop has consumed
    results,        \* the results list
    calls,          \* the texts the Analyzer was invoked with, in call order
    returned,       \* what each Analyzer call did (its outcome), in call order
    postfix,        \* the progress bar's postfix, <<row, total>>
    inspected,      \* number of dspy.inspect_history calls
    tableRows,      \* rows of the printed results table
    cloud,          \* the printed topic cloud (aggregate_topics' output)
    csvOut,         \* rows written by save_results_csv
    aggregated,     \* aggregate_topics' return value (direct call)
    exitCode        \* the command's exit status (-1 while it runs)

vars == <<entry, pc, command, limit, debug, show_progress, no_save, configOk,
          csvState, column, texts, idx, results, calls, returned, postfix,
          inspected, tableRows, cloud, csvOut, aggregated, exitCode>>

----------------------------------------------------------------------------
(* Bounds *)

MaxRows == 2        \* rows of the CSV column / length of texts

MaxMsgLen == 52     \* longest Analyzer error message

MaxResults == 3     \* length of the list handed to aggregate_topics directly

(* Program constants *)

ErrorMsgChars == 50     \* str(e)[:50]

\* args.limit: the argparse default None, or the integer given with --limit
NoLimit == [given |-> FALSE, n |-> 0]

Limit(n) == [given |-> TRUE, n |-> n]

----------------------------------------------------------------------------
(* Character strings *)

Min(a, b) == IF a < b THEN a ELSE b

Max(a, b) == IF a > b THEN a ELSE b

Digits == <<"0", "1", "2", "3", "4", "5", "6", "7", "8", "9">>

\* An error message of n characters; its characters differ by position.
Message(n) == [i \in 1..n |-> Digits[(i % 10) + 1]]

Whitespace == {" ", "\t", "\n"}

\* Python's s[:n] on a sequence, for any integer n.
SliceTo(s, n) ==
    IF n >= 0 THEN SubSeq(s, 1, Min(n, Len(s)))
    ELSE SubSeq(s, 1, Max(Len(s) + n, 0))

RECURSIVE LStrip(_)
LStrip(s) ==
    IF s # <<>> /\ Head(s) \in Whitespace THEN LStrip(Tail(s)) ELSE s

RECURSIVE RStrip(_)
RStrip(s) ==
    IF s # <<>> /\ s[Len(s)] \in Whitespace
    THEN RStrip(SubSeq(s, 1, Len(s) - 1)) ELSE s

\* str.strip()
Strip(s) == RStrip(LStrip(s))

RECURSIVE Join(_, _)
\* sep.join(parts)
Join(sep, parts) ==
    IF parts = <<>> THEN <<>>
    ELSE IF Len(parts) = 1 THEN parts[1]
    ELSE parts[1] \o sep \o Join(sep, Tail(parts))

AnalysisFailed ==
    <<"A", "n", "a", "l", "y", "s", "i", "s", " ",
      "f", "a", "i", "l", "e", "d", ":", " ">>

----------------------------------------------------------------------------
(* Input domains *)

Texts == {"Great service", "Slow delivery"}

Sentiments == {"Positive", "Negative", "Neutral"}

SeqsUpTo(S, n) == UNION {[1..k -> S] : k \in 0..n}

\* What the topic extractor hands back: a list of topic strings, or (against
\* its declared contract) a single string.
Predictions ==
    {[sentiment |-> s, isList |-> TRUE, list |-> l, str |-> <<>>] :
        s \in Sentiments,
        l \in {<< <<"a">> >>, << <<"a">>, <<"b">> >>}}
    \cup
    {[sentiment |-> s, isList |-> FALSE, list |-> <<>>, str |-> <<"a">>] :
        s \in Sentiments}

ErrorMessages == {Message(n) : n \in {3, ErrorMsgChars, MaxMsgLen}}

NoPrediction == [sentiment |-> "", isList |-> TRUE, list |-> <<>>, str |-> <<>>]

\* The outcomes of one Analyzer call: a prediction, an ordinary exception
\* carrying a message, or a KeyboardInterrupt arriving during the call.
Outcomes ==
    {[kind |-> "ok", prediction |-> p, message |-> <<>>] : p \in Predictions}
    \cup
    {[kind |-> "exception", prediction |-> NoPrediction, message |-> m] :
        m \in ErrorMessages}
    \cup
    {[kind |-> "interrupt", prediction |-> NoPrediction, message |-> <<>>]}

----------------------------------------------------------------------------
(* analyze_feedback_batch *)

\* prediction.topics if isinstance(prediction.topics, list) else [prediction.topics]
CoerceTopics_NoWrap(prediction) == prediction.list

CoerceTopics(prediction) ==
    IF prediction.isList THEN prediction.list ELSE <<prediction.str>>

SuccessResult(text, prediction) ==
    [original_text |-> text,
     sentiment |-> prediction.sentiment,
     topics |-> CoerceTopics(prediction)]

\* f"Analysis failed: {str(e)[:50]}"
FailureTopic_Cut49(message) == AnalysisFailed \o SliceTo(message, ErrorMsgChars - 1)

FailureTopic(message) == AnalysisFailed \o SliceTo(message, ErrorMsgChars)

ErrorResult_Neutral(text, message) ==
    [original_text |-> text,
     sentiment |-> "Neutral",
     topics |-> <<FailureTopic(message)>>]

ErrorResult(text, message) ==
    [original_text |-> text,
     sentiment |-> "Error",
     topics |-> <<FailureTopic(message)>>]

\* results.append(result)
Collect_SkipErrors(rs, result) ==
    IF result.sentiment = "Error" THEN rs ELSE Append(rs, result)

Collect(rs, result) == Append(rs, result)

\* except Exception as e: what the clause catches of a call that did not
\* return.  KeyboardInterrupt derives from BaseException, not from Exception.
Caught_Everything(outcome) == outcome.kind \in {"exception", "interrupt"}

Caught(outcome) == outcome.kind = "exception"

\* analyzer = FeedbackAnalyzer(); results = []; iterator = tqdm(...)
BatchStart ==
    /\ pc = "batch"
    /\ idx' = 0
    /\ results' = <<>>
    /\ pc' = "loop"
    /\ UNCHANGED <<entry, command, limit, debug, show_progress, no_save,
                   configOk, csvState, column, texts, calls, returned, postfix,
                   inspected, tableRows, cloud, csvOut, aggregated, exitCode>>

\* One iteration of the for loop.  A KeyboardInterrupt is not an Exception,
\* so the except clause lets it through to the caller.
AnalyzeRow ==
    /\ pc = "loop"
    /\ idx < Len(texts)
    /\ \E outcome \in Outcomes :
        LET text == texts[idx + 1] IN
        /\ postfix' = IF show_progress THEN <<idx + 1, Len(texts)>> ELSE postfix
        /\ calls' = Append(calls, text)
        /\ returned' = Append(returned, outcome)
        /\ idx' = idx + 1
        /\ CASE outcome.kind = "ok" ->
                  /\ inspected' = IF debug THEN inspected + 1 ELSE inspected
                  /\ results' = Collect(results, SuccessResult(text, outcome.prediction))
                  /\ pc' = "loop"
             [] outcome.kind # "ok" /\ Caught(outcome) ->
                  /\ inspected' = inspected
                  /\ results' = Collect(results, ErrorResult(text, outcome.message))
                  /\ pc' = "loop"
             [] outcome.kind # "ok" /\ ~Caught(outcome) ->
                  /\ inspected' = inspected
                  /\ results' = results
                  /\ pc' = "interrupted"
    /\ UNCHANGED <<entry, command, limit, debug, show_progress, no_save,
                   configOk, csvState, column, texts, tableRows, cloud, csvOut,
                   aggregated, exitCode>>

\* return results
BatchReturn ==
    /\ pc = "loop"
    /\ idx = Len(texts)
    /\ pc' = IF entry = "batch" THEN "returned" ELSE "display"
    /\ UNCHANGED <<entry, command, limit, debug, show_progress, no_save,
                   configOk, csvState, column, texts, idx, results, calls,
                   returned, postfix, inspected, tableRows, cloud, csvOut,
                   aggregated, exitCode>>

\* The KeyboardInterrupt leaves analyze_feedback_batch: no value is returned.
BatchRaise ==
    /\ pc = "interrupted"
    /\ entry = "batch"
    /\ pc' = "raised"
    /\ UNCHANGED <<entry, command, limit, debug, show_progress, no_save,
                   configOk, csvState, column, texts, idx, results, calls,
                   returned, postfix, inspected, tableRows, cloud, csvOut,
                   aggregated, exitCode>>

\* A direct call analyze_feedback_batch(texts, show_progress, debug).
InitBatch ==
    /\ entry = "batch"
    /\ pc = "batch"
    /\ command = "none"
    /\ limit = NoLimit
    /\ debug \in BOOLEAN
    /\ show_progress \in BOOLEAN
    /\ no_save = FALSE
    /\ configOk = TRUE
    /\ csvState = "ok"
    /\ column = <<>>
    /\ texts \in SeqsUpTo(Texts, MaxRows)
    /\ idx = 0
    /\ results = <<>>
    /\ calls = <<>>
    /\ returned = <<>>
    /\ postfix = <<0, 0>>
    /\ inspected = 0
    /\ tableRows = <<>>
    /\ cloud = <<>>
    /\ csvOut = <<>>
    /\ aggregated = <<>>
    /\ exitCode = -1

NextBatch == BatchStart \/ AnalyzeRow \/ BatchReturn \/ BatchRaise

SpecBatch == InitBatch /\ [][NextBatch]_vars

----------------------------------------------------------------------------
(* aggregate_topics *)

\* A collections.Counter: its items in insertion order, as [key, n] records.
CounterAdd(c, k) ==
    IF \E i \in DOMAIN c : c[i].key = k
    THEN [i \in DOMAIN c |-> IF c[i].key = k THEN [c[i] EXCEPT !.n = @ + 1] ELSE c[i]]
    ELSE Append(c, [key |-> k, n |-> 1])

\* Counter.most_common(): sorted(items, key=count, reverse=True), a stable sort.
InsertSorted_BeforeEqual(sorted, item) ==
    LET k == Cardinality({i \in DOMAIN sorted : sorted[i].n > item.n})
    IN  SubSeq(sorted, 1, k) \o <<item>> \o SubSeq(sorted, k + 1, Len(sorted))

InsertSorted(sorted, item) ==
    LET k == Cardinality({i \in DOMAIN sorted : sorted[i].n >= item.n})
    IN  SubSeq(sorted, 1, k) \o <<item>> \o SubSeq(sorted, k + 1, Len(sorted))

RECURSIVE SortedInto(_, _)
SortedInto(sorted, c) ==
    IF c = <<>> THEN sorted
    ELSE SortedInto(InsertSorted(sorted, Head(c)), Tail(c))

MostCommon(c) == SortedInto(<<>>, c)

\* Counter.most_common(1)[0]: heapq.nlargest(1, ...) is max(items, key=count),
\* the first item in insertion order that has the largest count.
MostCommon1_LastMax(c) ==
    c[CHOOSE i \in DOMAIN c :
        \A j \in DOMAIN c : c[j].n <= c[i].n /\ (j > i => c[j].n < c[i].n)]

MostCommon1(c) ==
    c[CHOOSE i \in DOMAIN c :
        \A j \in DOMAIN c : c[j].n <= c[i].n /\ (j < i => c[j].n < c[i].n)]

\* topic_sentiments: Dict[str, Counter], as [key, counter] records.
SentimentsOf(d, topic) ==
    d[CHOOSE i \in DOMAIN d : d[i].key = topic].counter

SentimentAdd(d, topic, sentiment) ==
    IF \E i \in DOMAIN d : d[i].key = topic
    THEN [i \in DOMAIN d |->
            IF d[i].key = topic
            THEN [d[i] EXCEPT !.counter = CounterAdd(@, sentiment)]
            ELSE d[i]]
    ELSE Append(d, [key |-> topic, counter |-> CounterAdd(<<>>, sentiment)])

\* if result.sentiment == "Error": continue
IsErrorResult_Never(result) == FALSE

IsErrorResult(result) == result.sentiment = "Error"

\* topic_normalized = topic.strip()
Normalize_NoStrip(topic) == topic

Normalize(topic) == Strip(topic)

\* The body of the inner loop, for one topic of one result.
CountTopic(st, topic, sentiment) ==
    LET topic_normalized == Normalize(topic) IN
    IF topic_normalized = <<>> THEN st
    ELSE [topic_counts |-> CounterAdd(st.topic_counts, topic_normalized),
          topic_sentiments |->
              SentimentAdd(st.topic_sentiments, topic_normalized, sentiment)]

\* for topic in result.topics
RECURSIVE ScanTopics_Distinct(_, _, _)
ScanTopics_Distinct(st, topics, sentiment) ==
    IF topics = <<>> THEN st
    ELSE LET rest == SelectSeq(Tail(topics),
                         LAMBDA x : Normalize(x) # Normalize(Head(topics)))
         IN  ScanTopics_Distinct(CountTopic(st, Head(topics), sentiment),
                                 rest, sentiment)

RECURSIVE ScanTopics(_, _, _)
ScanTopics(st, topics, sentiment) ==
    IF topics = <<>> THEN st
    ELSE ScanTopics(CountTopic(st, Head(topics), sentiment), Tail(topics), sentiment)

RECURSIVE ScanResults(_, _)
ScanResults(st, rs) ==
    IF rs = <<>> THEN st
    ELSE IF IsErrorResult(Head(rs)) THEN ScanResults(st, Tail(rs))
    ELSE ScanResults(ScanTopics(st, Head(rs).topics, Head(rs).sentiment), Tail(rs))

aggregate_topics(rs) ==
    LET st == ScanResults([topic_counts |-> <<>>, topic_sentiments |-> <<>>], rs)
        ranked == MostCommon(st.topic_counts)
    IN  [i \in DOMAIN ranked |->
            [topic |-> ranked[i].key,
             count |-> ranked[i].n,
             dominant_sentiment |->
                 MostCommon1(SentimentsOf(st.topic_sentiments, ranked[i].key)).key]]

\* The lists of topic strings handed to aggregate_topics directly: padded and
\* bare spellings of one topic, another letter case, a blank topic, a repeat.
TopicLists ==
    { << <<"a">> >>,
      << <<" ", "a", "\t">> >>,
      << <<"A">> >>,
      << <<" ">> >>,
      << <<"a">>, <<"a">> >>,
      << <<"A">>, <<"a", " ">> >> }

AggRows ==
    [original_text : {"Great service"},
     sentiment : Sentiments \cup {"Error"},
     topics : TopicLists]

\* A direct call aggregate_topics(results).
AggregateCall ==
    /\ pc = "aggregate"
    /\ aggregated' = aggregate_topics(results)
    /\ pc' = "aggregated"
    /\ UNCHANGED <<entry, command, limit, debug, show_progress, no_save,
                   configOk, csvState, column, texts, idx, results, calls,
                   returned, postfix, inspected, tableRows, cloud, csvOut,
                   exitCode>>

InitAgg ==
    /\ entry = "aggregate"
    /\ pc = "aggregate"
    /\ command = "none"
    /\ limit = NoLimit
    /\ debug = FALSE
    /\ show_progress = TRUE
    /\ no_save = FALSE
    /\ configOk = TRUE
    /\ csvState = "ok"
    /\ column = <<>>
    /\ texts = <<>>
    /\ idx = 0
    /\ results \in SeqsUpTo(AggRows, MaxResults)
    /\ calls = <<>>
    /\ returned = <<>>
    /\ postfix = <<0, 0>>
    /\ inspected = 0
    /\ tableRows = <<>>
    /\ cloud = <<>>
    /\ csvOut = <<>>
    /\ aggregated = <<>>
    /\ exitCode = -1

NextAgg == AggregateCall

SpecAgg == InitAgg /\ [][NextAgg]_vars

----------------------------------------------------------------------------
(* sentiment_miner/main.py: main *)

Limits == {NoLimit} \cup {Limit(n) : n \in -1..(MaxRows + 1)}

\* get_llm_backend(); configure_dspy() -- a ValueError ends the command with 1
MainConfigure ==
    /\ entry = "miner"
    /\ pc = "configure"
    /\ IF configOk
       THEN pc' = "read" /\ exitCode' = exitCode
       ELSE pc' = "exit" /\ exitCode' = 1
    /\ UNCHANGED <<entry, command, limit, debug, show_progress, no_save,
                   configOk, csvState, column, texts, idx, results, calls,
                   returned, postfix, inspected, tableRows, cloud, csvOut,
                   aggregated>>

\* texts = read_csv_column(args.input, args.column): FileNotFoundError and
\* KeyError end the command with 1
MainReadCsv ==
    /\ entry = "miner"
    /\ pc = "read"
    /\ IF csvState = "ok"
       THEN texts' = column /\ pc' = "limit" /\ exitCode' = exitCode
       ELSE texts' = texts /\ pc' = "exit" /\ exitCode' = 1
    /\ UNCHANGED <<entry, command, limit, debug, show_progress, no_save,
                   configOk, csvState, column, idx, results, calls, returned,
                   postfix, inspected, tableRows, cloud, csvOut, aggregated>>

\* if args.limit: texts = texts[:args.limit]
Truthy(lim) == lim.given /\ lim.n # 0

LimitTexts(ts, lim) == IF Truthy(lim) THEN SliceTo(ts, lim.n) ELSE ts

\* ... followed by the call
\* analyze_feedback_batch(texts, show_progress=not args.debug, debug=args.debug)
MainApplyLimit ==
    /\ entry = "miner"
    /\ pc = "limit"
    /\ texts' = LimitTexts(texts, limit)
    /\ show_progress' = ~debug
    /\ pc' = "batch"
    /\ UNCHANGED <<entry, command, limit, debug, no_save, configOk, csvState,
                   column, idx, results, calls, returned, postfix, inspected,
                   tableRows, cloud, csvOut, aggregated, exitCode>>

\* display_results_table(results, console)
TableRow(result) ==
    [text |-> result.original_text,
     sentiment |-> result.sentiment,
     topics |-> Join(<<",", " ">>, result.topics)]

MainDisplayResults ==
    /\ entry = "miner"
    /\ pc = "display"
    /\ tableRows' = [i \in DOMAIN results |-> TableRow(results[i])]
    /\ pc' = "cloud"
    /\ UNCHANGED <<entry, command, limit, debug, show_progress, no_save,
                   configOk, csvState, column, texts, idx, results, calls,
                   returned, postfix, inspected, cloud, csvOut, aggregated,
                   exitCode>>

\* display_topic_cloud_table(results, console)
MainDisplayTopicCloud ==
    /\ entry = "miner"
    /\ pc = "cloud"
    /\ cloud' = aggregate_topics(results)
    /\ pc' = "save"
    /\ UNCHANGED <<entry, command, limit, debug, show_progress, no_save,
                   configOk, csvState, column, texts, idx, results, calls,
                   returned, postfix, inspected, tableRows, csvOut, aggregated,
                   exitCode>>

\* save_results_csv: one row per result, topics joined with ", "
CsvRow(result) ==
    [original_text |-> result.original_text,
     sentiment |-> result.sentiment,
     extracted_topics |-> Join(<<",", " ">>, result.topics)]

\* if not args.no_save: save_results_csv(...); return 0
MainSave ==
    /\ entry = "miner"
    /\ pc = "save"
    /\ csvOut' = IF no_save THEN csvOut
                 ELSE [i \in DOMAIN results |-> CsvRow(results[i])]
    /\ exitCode' = 0
    /\ pc' = "exit"
    /\ UNCHANGED <<entry, command, limit, debug, show_progress, no_save,
                   configOk, csvState, column, texts, idx, results, calls,
                   returned, postfix, inspected, tableRows, cloud, aggregated>>

\* except KeyboardInterrupt: return 130
MainInterrupted ==
    /\ entry = "miner"
    /\ pc = "interrupted"
    /\ exitCode' = 130
    /\ pc' = "exit"
    /\ UNCHANGED <<entry, command, limit, debug, show_progress, no_save,
                   configOk, csvState, column, texts, idx, results, calls,
                   returned, postfix, inspected, tableRows, cloud, csvOut,
                   aggregated>>

----------------------------------------------------------------------------
(* cli.py: main *)

\* if not args.command: parser.print_help(); return 0
CliNoCommand ==
    /\ entry = "cli"
    /\ pc = "configure"
    /\ command = "none"
    /\ exitCode' = 0
    /\ pc' = "exit"
    /\ UNCHANGED <<entry, command, limit, debug, show_progress, no_save,
                   configOk, csvState, column, texts, idx, results, calls,
                   returned, postfix, inspected, tableRows, cloud, csvOut,
                   aggregated>>

\* configure_dspy() inside try ... except Exception: return 1
CliConfigure ==
    /\ entry = "cli"
    /\ pc = "configure"
    /\ command # "none"
    /\ IF configOk
       THEN pc' = "dispatch" /\ exitCode' = exitCode
       ELSE pc' = "exit" /\ exitCode' = 1
    /\ UNCHANGED <<entry, command, limit, debug, show_progress, no_save,
                   configOk, csvState, column, texts, idx, results, calls,
                   returned, postfix, inspected, tableRows, cloud, csvOut,
                   aggregated>>

\* run_sentiment_miner: from sentiment_miner.main import run_analysis_pipeline.
\* sentiment_miner/main.py defines create_parser, display_results_table,
\* display_topic_cloud_table and main, and no run_analysis_pipeline: the import
\* raises ImportError, and main's except Exception turns it into status 1.
CliRunSentiment ==
    /\ entry = "cli"
    /\ pc = "dispatch"
    /\ command = "sentiment"
    /\ exitCode' = 1
    /\ pc' = "exit"
    /\ UNCHANGED <<entry, command, limit, debug, show_progress, no_save,
                   configOk, csvState, column, texts, idx, results, calls,
                   returned, postfix, inspected, tableRows, cloud, csvOut,
                   aggregated>>

\* run_chat: 0 when the session ends, 1 when starting it raises
CliRunChat ==
    /\ entry = "cli"
    /\ pc = "dispatch"
    /\ command = "chat"
    /\ \E code \in {0, 1} : exitCode' = code
    /\ pc' = "exit"
    /\ UNCHANGED <<entry, command, limit, debug, show_progress, no_save,
                   configOk, csvState, column, texts, idx, results, calls,
                   returned, postfix, inspected, tableRows, cloud, csvOut,
                   aggregated>>

----------------------------------------------------------------------------
(* The commands *)

InitMiner ==
    /\ entry = "miner"
    /\ command = "sentiment"
    /\ limit \in Limits
    /\ debug \in BOOLEAN
    /\ no_save \in BOOLEAN

InitCli ==
    /\ entry = "cli"
    /\ command \in {"none", "sentiment", "chat"}
    /\ limit \in {NoLimit, Limit(1)}
    /\ debug = FALSE
    /\ no_save = FALSE

Init ==
    /\ InitMiner \/ InitCli
    /\ pc = "configure"
    /\ show_progress = TRUE
    /\ configOk \in BOOLEAN
    /\ csvState \in {"missing", "nocolumn", "ok"}
    /\ column \in SeqsUpTo(Texts, MaxRows)
    /\ texts = <<>>
    /\ idx = 0
    /\ results = <<>>
    /\ calls = <<>>
    /\ returned = <<>>
    /\ postfix = <<0, 0>>
    /\ inspected = 0
    /\ tableRows = <<>>
    /\ cloud = <<>>
    /\ csvOut = <<>>
    /\ aggregated = <<>>
    /\ exitCode = -1

Next ==
    \/ MainConfigure
    \/ MainReadCsv
    \/ MainApplyLimit
    \/ BatchStart
    \/ AnalyzeRow
    \/ BatchReturn
    \/ MainDisplayResults
    \/ MainDisplayTopicCloud
    \/ MainSave
    \/ MainInterrupted
    \/ CliNoCommand
    \/ CliConfigure
    \/ CliRunSentiment
    \/ CliRunChat

Spec == Init /\ [][Next]_vars

----------------------------------------------------------------------------
(* Properties of analyze_feedback_batch, checked under SpecBatch *)

Interrupted == \E i \in DOMAIN returned : returned[i].kind = "interrupt"

FailedRows == {i \in DOMAIN returned : returned[i].kind = "exception"}

\* What the Analyzer handed back at call i, as a list of topics.
ReturnedTopics(i) ==
    IF returned[i].prediction.isList
    THEN returned[i].prediction.list
    ELSE <<returned[i].prediction.str>>

\* C1: as long as the Analyzer only succeeds or raises ordinary exceptions, the
\* loop has produced one result per consumed text, in input order, each with
\* the text unmodified, and has called the Analyzer once per consumed text in
\* input order; on return every text has been consumed.
BatchKeepsEveryRow ==
    (entry = "batch" /\ ~Interrupted) =>
        /\ Len(results) = idx
        /\ idx <= Len(texts)
        /\ \A i \in 1..Len(results) : results[i].original_text = texts[i]
        /\ calls = SubSeq(texts, 1, idx)
        /\ pc = "returned" => idx = Len(texts)

BatchKeepsEveryRowWitness ==
    /\ entry = "batch"
    /\ pc = "returned"
    /\ Len(texts) = MaxRows
    /\ texts[1] # texts[2]
    /\ \E i \in DOMAIN returned : returned[i].kind = "exception"
    /\ \E i \in DOMAIN returned : returned[i].kind = "ok"

\* C2: when the Analyzer raised for exactly one row k, the returned list has
\* sentiment "Error" at k only, and every other row carries the sentiment and
\* topics the Analyzer handed back for it.
SingleFailureIsIsolated ==
    (entry = "batch" /\ pc = "returned" /\ Cardinality(FailedRows) = 1) =>
        /\ Len(results) = Len(returned)
        /\ \A i \in 1..Len(results) :
            IF i \in FailedRows
            THEN results[i].sentiment = "Error"
            ELSE /\ results[i].sentiment # "Error"
                 /\ results[i].sentiment = returned[i].prediction.sentiment
                 /\ results[i].topics = ReturnedTopics(i)

SingleFailureIsIsolatedWitness ==
    /\ entry = "batch"
    /\ pc = "returned"
    /\ Len(texts) = MaxRows
    /\ FailedRows = {1}
    /\ results[1].sentiment = "Error"
    /\ results[2].sentiment = "Negative"

\* t is "Analysis failed: " followed by the first 50 characters of message
\* (all of message when it has fewer).
IsFailureTopicOf(t, message) ==
    LET kept == IF Len(message) < 50 THEN Len(message) ELSE 50 IN
    /\ Len(t) = Len(AnalysisFailed) + kept
    /\ \A j \in 1..Len(AnalysisFailed) : t[j] = AnalysisFailed[j]
    /\ \A j \in 1..kept : t[Len(AnalysisFailed) + j] = message[j]

\* C3: a row whose Analyzer call raised an ordinary exception gets a result
\* with sentiment "Error" and the single topic "Analysis failed: " + the first
\* 50 characters of the message; the exception does not leave the function
\* (only an interrupt does), and the loop goes on to the next row.
FailureBecomesErrorRow ==
    (entry = "batch") =>
        /\ \A i \in FailedRows :
            /\ i <= Len(results)
            /\ results[i].sentiment = "Error"
            /\ Len(results[i].topics) = 1
            /\ IsFailureTopicOf(results[i].topics[1], returned[i].message)
        /\ pc \in {"interrupted", "raised"} =>
            returned[Len(returned)].kind = "interrupt"
        /\ (returned # <<>> /\ returned[Len(returned)].kind = "exception") =>
            /\ pc \in {"loop", "returned"}
            /\ idx = Len(returned)
            /\ idx < Len(texts) => pc = "loop"

FailureBecomesErrorRowWitness ==
    /\ entry = "batch"
    /\ pc = "returned"
    /\ Len(returned) = MaxRows
    /\ returned[1].kind = "exception"
    /\ Len(returned[1].message) > 50
    /\ Len(results[1].topics[1]) = Len(AnalysisFailed) + 50
    /\ returned[2].kind = "exception"
    /\ Len(returned[2].message) < 50
    /\ results[2].topics[1] = AnalysisFailed \o returned[2].message

\* C4: when every Analyzer call succeeded, whatever show_progress and debug
\* are, every returned result has the sentiment the Analyzer handed back, never
\* "Error", and as topics the list handed back, or the one-element list of the
\* string handed back.
AllSuccessKeepsPredictions ==
    (entry = "batch" /\ pc = "returned"
        /\ \A i \in DOMAIN returned : returned[i].kind = "ok") =>
        /\ Len(results) = Len(texts)
        /\ \A i \in 1..Len(results) :
            /\ results[i].sentiment = returned[i].prediction.sentiment
            /\ results[i].sentiment # "Error"
            /\ IF returned[i].prediction.isList
               THEN results[i].topics = returned[i].prediction.list
               ELSE /\ Len(results[i].topics) = 1
                    /\ results[i].topics[1] = returned[i].prediction.str

AllSuccessKeepsPredictionsWitness ==
    /\ entry = "batch"
    /\ pc = "returned"
    /\ debug
    /\ show_progress
    /\ inspected = MaxRows
    /\ postfix = <<MaxRows, MaxRows>>
    /\ ~returned[1].prediction.isList
    /\ Len(returned[2].prediction.list) = 2
    /\ results[1].topics = << <<"a">> >>

----------------------------------------------------------------------------
(* Properties of the commands, checked under Spec *)

\* C8 (as claimed): the sentiment command ends with status 0 whenever the
\* configuration is usable and the CSV column can be read, however many rows
\* failed analysis.
SentimentCommandExitsZero ==
    (pc = "exit" /\ command = "sentiment" /\ configOk /\ csvState = "ok"
        /\ ~Interrupted) => exitCode = 0

\* The same statement for the sentiment-miner entry point alone.
MinerCommandExitsZero ==
    (entry = "miner" /\ pc = "exit" /\ configOk /\ csvState = "ok"
        /\ ~Interrupted) => exitCode = 0

\* C9 (as claimed): with a row cap N >= 0 given, the sequence handed to
\* analyze_feedback_batch is the first N texts of the column (all of them when
\* N is at least their number).
LimitHandsFirstN ==
    (entry = "miner" /\ pc \in {"batch", "loop"} /\ limit.given /\ limit.n >= 0) =>
        /\ Len(texts) = (IF limit.n < Len(column) THEN limit.n ELSE Len(column))
        /\ \A i \in 1..Len(texts) : texts[i] = column[i]

----------------------------------------------------------------------------
(* Properties of aggregate_topics, checked under SpecAgg *)

NonErrorResults == SelectSeq(results, LAMBDA r : r.sentiment # "Error")

\* C5: aggregate_topics returns what it returns on the same list with the
\* "Error" results removed, and the empty sequence when every result (or none)
\* is an "Error" result.
AggregationIgnoresErrors ==
    (entry = "aggregate" /\ pc = "aggregated") =>
        /\ aggregated = aggregate_topics(NonErrorResults)
        /\ (\A i \in DOMAIN results : results[i].sentiment = "Error") =>
            aggregated = <<>>

AggregationIgnoresErrorsWitness ==
    /\ entry = "aggregate"
    /\ pc = "aggregated"
    /\ Len(results) = 3
    /\ results[1].sentiment = "Error"
    /\ results[1].topics = << <<"A">> >>
    /\ results[2].sentiment = "Positive"
    /\ results[2].topics = << <<"a">> >>
    /\ results[3].sentiment = "Error"
    /\ results[3].topics = << <<"a">>, <<"a">> >>
    /\ Len(aggregated) = 1
    /\ aggregated[1].count = 1

\* The topic occurrences aggregate_topics is to count, in processing order:
\* for each non-Error result in turn, each non-blank topic of its list in
\* turn, trimmed, with the result's sentiment.
RECURSIVE TopicEvents(_)
TopicEvents(rs) ==
    IF rs = <<>> THEN <<>>
    ELSE LET r == Head(rs)
             all == [j \in DOMAIN r.topics |->
                        [topic |-> Strip(r.topics[j]), sentiment |-> r.sentiment]]
         IN  (IF r.sentiment = "Error" THEN <<>>
              ELSE SelectSeq(all, LAMBDA e : e.topic # <<>>))
             \o TopicEvents(Tail(rs))

\* The position in ev of the first occurrence of topic t.
FirstCounted(ev, t) ==
    CHOOSE i \in DOMAIN ev :
        ev[i].topic = t /\ \A j \in 1..(i - 1) : ev[j].topic # t

\* C6: the output has exactly one tuple per distinct trimmed non-blank topic of
\* the non-Error results, in descending order of count, and tuples of equal
\* count in the order in which their topics were first counted.
OutputRankedByCount ==
    (entry = "aggregate" /\ pc = "aggregated") =>
        LET ev == TopicEvents(results)
            topics == {ev[i].topic : i \in DOMAIN ev}
        IN  /\ {aggregated[k].topic : k \in DOMAIN aggregated} = topics
            /\ Len(aggregated) = Cardinality(topics)
            /\ \A k, l \in DOMAIN aggregated :
                k < l =>
                    /\ aggregated[k].count >= aggregated[l].count
                    /\ aggregated[k].count = aggregated[l].count =>
                        FirstCounted(ev, aggregated[k].topic)
                            < FirstCounted(ev, aggregated[l].topic)

OutputRankedByCountWitness ==
    /\ entry = "aggregate"
    /\ pc = "aggregated"
    /\ Len(results) = 3
    /\ results[1].topics = << <<"A">>, <<"a", " ">> >>
    /\ results[2].topics = << <<"A">> >>
    /\ results[3].topics = << <<"a">>, <<"a">> >>
    /\ \A i \in DOMAIN results : results[i].sentiment # "Error"
    /\ Len(aggregated) = 2
    /\ aggregated[1].topic = <<"a">>
    /\ aggregated[1].count = 3
    /\ aggregated[2].topic = <<"A">>
    /\ aggregated[2].count = 2

\* t is raw without its leading and trailing whitespace, and is not empty.
IsTrimOf(t, raw) ==
    \E i, j \in DOMAIN raw :
        /\ i <= j
        /\ t = SubSeq(raw, i, j)
        /\ raw[i] \notin Whitespace
        /\ raw[j] \notin Whitespace
        /\ \A k \in DOMAIN raw : (k < i \/ k > j) => raw[k] \in Whitespace

\* The places <<i, j>> of the topic strings of the non-Error results.
TopicPlaces ==
    UNION {{<<i, j>> : j \in DOMAIN results[i].topics} :
              i \in {i \in DOMAIN results : results[i].sentiment # "Error"}}

RawTopic(p) == results[p[1]].topics[p[2]]

\* C7: every output topic is a trimmed, non-empty string whose count is the
\* number of topic strings (of non-Error results) that trim to exactly it, so
\* spellings that differ in surrounding whitespace share one entry, spellings
\* that differ in letter case do not, and blank strings count nowhere; every
\* non-blank topic string has its entry.
TopicsKeyedByTrimmedString ==
    (entry = "aggregate" /\ pc = "aggregated") =>
        /\ \A k \in DOMAIN aggregated :
            LET t == aggregated[k].topic IN
            /\ t # <<>>
            /\ t[1] \notin Whitespace
            /\ t[Len(t)] \notin Whitespace
            /\ aggregated[k].count =
                   Cardinality({p \in TopicPlaces : IsTrimOf(t, RawTopic(p))})
            /\ \A l \in DOMAIN aggregated : l # k => aggregated[l].topic # t
        /\ \A p \in TopicPlaces :
            (\E x \in DOMAIN RawTopic(p) : RawTopic(p)[x] \notin Whitespace) =>
                \E k \in DOMAIN aggregated : IsTrimOf(aggregated[k].topic, RawTopic(p))

TopicsKeyedByTrimmedStringWitness ==
    /\ entry = "aggregate"
    /\ pc = "aggregated"
    /\ Len(results) = 3
    /\ results[1].topics = << <<"A">>, <<"a", " ">> >>
    /\ results[2].topics = << <<" ", "a", "\t">> >>
    /\ results[3].topics = << <<" ">> >>
    /\ \A i \in DOMAIN results : results[i].sentiment # "Error"
    /\ Len(aggregated) = 2
    /\ aggregated[1].topic = <<"a">>
    /\ aggregated[1].count = 2
    /\ aggregated[2].topic = <<"A">>
    /\ aggregated[2].count = 1

\* How often topic t has occurred with sentiment s among the first n of ev.
SeenBy(ev, t, s, n) ==
    Cardinality({i \in 1..n : ev[i].topic = t /\ ev[i].sentiment = s})

\* The sentiments that occur most often with topic t in ev.
TopSentiments(ev, t) ==
    LET total == [s \in Sentiments |-> SeenBy(ev, t, s, Len(ev))] IN
    {s \in Sentiments :
        total[s] > 0 /\ \A u \in Sentiments : total[u] <= total[s]}

\* The position in ev at which the count of s with t became v.
ReachedAt(ev, t, s, v) ==
    CHOOSE n \in DOMAIN ev :
        /\ ev[n].topic = t
        /\ ev[n].sentiment = s
        /\ SeenBy(ev, t, s, n) = v

\* C10 (as claimed): the dominant sentiment of an output topic is one of the
\* sentiments occurring most often with it, and among several such the one
\* whose count reached that highest value first.
DominantReachedTopCountFirst ==
    (entry = "aggregate" /\ pc = "aggregated") =>
        LET ev == TopicEvents(results) IN
        \A k \in DOMAIN aggregated :
            LET t == aggregated[k].topic
                d == aggregated[k].dominant_sentiment
                top == TopSentiments(ev, t)
                best == SeenBy(ev, t, d, Len(ev))
            IN  /\ d \in top
                /\ \A s \in top :
                    ReachedAt(ev, t, d, best) <= ReachedAt(ev, t, s, best)

\* C10 (amended): the dominant sentiment of an output topic is one of the
\* sentiments occurring most often with it, and among several such the one
\* that was first recorded with the topic.
DominantIsFirstRecordedTop ==
    (entry = "aggregate" /\ pc = "aggregated") =>
        LET ev == TopicEvents(results) IN
        \A k \in DOMAIN aggregated :
            LET t == aggregated[k].topic
                d == aggregated[k].dominant_sentiment
                top == TopSentiments(ev, t)
            IN  /\ d \in top
                /\ \A s \in top :
                    ReachedAt(ev, t, d, 1) <= ReachedAt(ev, t, s, 1)

DominantIsFirstRecordedTopWitness ==
    /\ entry = "aggregate"
    /\ pc = "aggregated"
    /\ Len(results) = 3
    /\ results[1].sentiment = "Positive"
    /\ results[1].topics = << <<"a">> >>
    /\ results[2].sentiment = "Negative"
    /\ results[2].topics = << <<"a">>, <<"a">> >>
    /\ results[3].sentiment = "Positive"
    /\ results[3].topics = << <<" ", "a", "\t">> >>
    /\ Len(aggregated) = 1
    /\ aggregated[1].count = 4
    /\ aggregated[1].dominant_sentiment = "Positive"

\* The number of non-Error results whose topic list contains t after trimming.
ResultsContaining(t) ==
    Cardinality({i \in DOMAIN results :
        /\ results[i].sentiment # "Error"
        /\ \E j \in DOMAIN results[i].topics : Strip(results[i].topics[j]) = t})

\* Whether some non-Error result lists t (after trimming) more than once.
RepeatedInOneResult(t) ==
    \E i \in DOMAIN results :
        /\ results[i].sentiment # "Error"
        /\ \E j, l \in DOMAIN results[i].topics :
            j # l /\ Strip(results[i].topics[j]) = t /\ Strip(results[i].topics[l]) = t

\* C11 (as claimed): the count of an output topic is at least 1 and is the
\* number of non-Error results whose topic list contains the topic.
CountIsContainingResults ==
    (entry = "aggregate" /\ pc = "aggregated") =>
        \A k \in DOMAIN aggregated :
            /\ aggregated[k].count >= 1
            /\ aggregated[k].count = ResultsContaining(aggregated[k].topic)

\* C11 (amended): the count of an output topic is at least 1 and is the number
\* of occurrences of the topic (after trimming) in the topic lists of the
\* non-Error results; it is the number of such results containing the topic
\* exactly when none of them lists the topic more than once.
CountIsOccurrences ==
    (entry = "aggregate" /\ pc = "aggregated") =>
        LET ev == TopicEvents(results) IN
        \A k \in DOMAIN aggregated :
            LET t == aggregated[k].topic IN
            /\ aggregated[k].count >= 1
            /\ aggregated[k].count = Len(SelectSeq(ev, LAMBDA e : e.topic = t))
            /\ (aggregated[k].count = ResultsContaining(t)) <=> ~RepeatedInOneResult(t)

CountIsOccurrencesWitness ==
    /\ entry = "aggregate"
    /\ pc = "aggregated"
    /\ Len(results) = 3
    /\ results[1].sentiment = "Positive"
    /\ results[1].topics = << <<"a">>, <<"a">> >>
    /\ results[2].sentiment = "Error"
    /\ results[2].topics = << <<"a">> >>
    /\ results[3].sentiment = "Neutral"
    /\ results[3].topics = << <<"A">>, <<"a", " ">> >>
    /\ Len(aggregated) = 2
    /\ aggregated[1].topic = <<"a">>
    /\ aggregated[1].count = 3
    /\ ResultsContaining(<<"a">>) = 2
    /\ aggregated[2].count = 1

----------------------------------------------------------------------------
(* The interrupted command, checked under Spec *)

\* C12: once a user interrupt has arrived during an Analyzer call of the
\* batch, the batch is abandoned: the interrupted row gets no result (no
\* "Error" row stands in for it), analyze_feedback_batch does not return, the
\* command goes straight to its KeyboardInterrupt handler and ends with status
\* 130, and no results table, topic cloud or output CSV has been produced.
InterruptAbortsBatch ==
    (entry = "miner" /\ Interrupted) =>
        /\ returned[Len(returned)].kind = "interrupt"
        /\ Len(results) = Len(returned) - 1
        /\ pc \in {"interrupted", "exit"}
        /\ pc = "exit" => exitCode = 130
        /\ pc = "interrupted" => exitCode = -1
        /\ tableRows = <<>>
        /\ cloud = <<>>
        /\ csvOut = <<>>
        /\ aggregated = <<>>

InterruptAbortsBatchWitness ==
    /\ entry = "miner"
    /\ pc = "exit"
    /\ exitCode = 130
    /\ ~no_save
    /\ Len(texts) = MaxRows
    /\ Len(returned) = MaxRows
    /\ returned[1].kind = "ok"
    /\ returned[MaxRows].kind = "interrupt"
    /\ results # <<>>
    /\ tableRows = <<>>
    /\ csvOut = <<>>

====
